---- MODULE Spec2Model ----
(***************************************************************************)
(* Model of ethqr-gen: the EMVCo TLV tag codec, the scheme and             *)
(* additional-data encoders, the QRBuilder payload assembler and the       *)
(* CRC-16 engine.                                                          *)
(*                                                                         *)
(* A Rust String is modelled as the sequence of its UTF-8 bytes (0..255);  *)
(* len() is the byte length, exactly as in the source.  String literals of *)
(* the source are written as byte tuples with the text in a comment.       *)
(***************************************************************************)
EXTENDS Integers, Sequences, FiniteSets, TLC

VARIABLES self, result, adata, call, ret

vars == <<self, result, adata, call, ret>>

(***************************************************************************)
(* Bounds of the model.                                                    *)
(***************************************************************************)
\* the longest scheme list a builder is given
MaxSchemes == 2

(***************************************************************************)
(* Bytes, characters and formatting.                                       *)
(***************************************************************************)
\* n copies of byte b
Rep(b, n) == [i \in 1..n |-> b]

RECURSIVE Flatten(_)
\* concatenation of a sequence of strings: .collect::<String>()
Flatten(ss) == IF ss = <<>> THEN <<>> ELSE Head(ss) \o Flatten(Tail(ss))

\* a UTF-8 continuation byte (10xxxxxx): never the first byte of a character
IsContinuation(b) == b >= 128 /\ b < 192

\* str::is_char_boundary, byte index i counted from 0; the slice operator
\* &s[a..b] panics when a or b is no boundary
is_char_boundary(s, i) ==
    \/ i = 0
    \/ i = Len(s)
    \/ (i < Len(s) /\ ~IsContinuation(s[i + 1]))

\* char::is_ascii_digit
is_ascii_digit(b) == b >= 48 /\ b <= 57

\* char::is_ascii_alphanumeric
is_ascii_alphanumeric(b) ==
    \/ is_ascii_digit(b)
    \/ (b >= 65 /\ b <= 90)
    \/ (b >= 97 /\ b <= 122)

\* str::to_uppercase on the characters of the model's alphabet: an ASCII
\* lower-case letter maps to its upper-case letter, every other byte (digits,
\* punctuation, the bytes of the caseless Ethiopic syllables) is unchanged
to_uppercase(s) ==
    [i \in 1..Len(s) |-> IF s[i] >= 97 /\ s[i] <= 122 THEN s[i] - 32 ELSE s[i]]

RECURSIVE Decimal(_)
\* the decimal digits of n, no padding
Decimal(n) == IF n < 10 THEN <<48 + n>> ELSE Decimal(n \div 10) \o <<48 + (n % 10)>>

\* format!("{:02}", n): at least two digits, zero-padded, more when n >= 100
Fmt02(n) == IF n < 10 THEN <<48, 48 + n>> ELSE Decimal(n)

\* one upper-case hexadecimal digit
HexDigit(d) == IF d < 10 THEN 48 + d ELSE 55 + d

\* format!("{crc:04X}") of a u16
Fmt04X(n) ==
    <<HexDigit(n \div 4096), HexDigit((n \div 256) % 16),
      HexDigit((n \div 16) % 16), HexDigit(n % 16)>>

(***************************************************************************)
(* crc.rs                                                                  *)
(***************************************************************************)
RECURSIVE XorBits(_, _, _)
\* bitwise exclusive or of the low n bits of a and b
XorBits(a, b, n) ==
    IF n = 0 THEN 0
    ELSE ((a + b) % 2) + 2 * XorBits(a \div 2, b \div 2, n - 1)

\* exclusive or of two 4-bit values, tabulated
Xor4 == [a \in 0..15 |-> [b \in 0..15 |-> XorBits(a, b, 4)]]

\* the ^ operator on u16
Xor16(a, b) ==
      Xor4[a \div 4096][b \div 4096] * 4096
    + Xor4[(a \div 256) % 16][(b \div 256) % 16] * 256
    + Xor4[(a \div 16) % 16][(b \div 16) % 16] * 16
    + Xor4[a % 16][b % 16]

\* the 256-entry lookup table, entry i at index i + 1
CRC16_CCITT_TABLE ==
    <<
       0, 4129, 8258, 12387, 16516, 20645, 24774, 28903,
       33032, 37161, 41290, 45419, 49548, 53677, 57806, 61935,
       4657, 528, 12915, 8786, 21173, 17044, 29431, 25302,
       37689, 33560, 45947, 41818, 54205, 50076, 62463, 58334,
       9314, 13379, 1056, 5121, 25830, 29895, 17572, 21637,
       42346, 46411, 34088, 38153, 58862, 62927, 50604, 54669,
       13907, 9842, 5649, 1584, 30423, 26358, 22165, 18100,
       46939, 42874, 38681, 34616, 63455, 59390, 55197, 51132,
       18628, 22757, 26758, 30887, 2112, 6241, 10242, 14371,
       51660, 55789, 59790, 63919, 35144, 39273, 43274, 47403,
       23285, 19156, 31415, 27286, 6769, 2640, 14899, 10770,
       56317, 52188, 64447, 60318, 39801, 35672, 47931, 43802,
       27814, 31879, 19684, 23749, 11298, 15363, 3168, 7233,
       60846, 64911, 52716, 56781, 44330, 48395, 36200, 40265,
       32407, 28342, 24277, 20212, 15891, 11826, 7761, 3696,
       65439, 61374, 57309, 53244, 48923, 44858, 40793, 36728,
       37256, 33193, 45514, 41451, 53516, 49453, 61774, 57711,
       4224, 161, 12482, 8419, 20484, 16421, 28742, 24679,
       33721, 37784, 41979, 46042, 49981, 54044, 58239, 62302,
       689, 4752, 8947, 13010, 16949, 21012, 25207, 29270,
       46570, 42443, 38312, 34185, 62830, 58703, 54572, 50445,
       13538, 9411, 5280, 1153, 29798, 25671, 21540, 17413,
       42971, 47098, 34713, 38840, 59231, 63358, 50973, 55100,
       9939, 14066, 1681, 5808, 26199, 30326, 17941, 22068,
       55628, 51565, 63758, 59695, 39368, 35305, 47498, 43435,
       22596, 18533, 30726, 26663, 6336, 2273, 14466, 10403,
       52093, 56156, 60223, 64286, 35833, 39896, 43963, 48026,
       19061, 23124, 27191, 31254, 2801, 6864, 10931, 14994,
       64814, 60687, 56684, 52557, 48554, 44427, 40424, 36297,
       31782, 27655, 23652, 19525, 15522, 11395, 7392, 3265,
       61215, 65342, 53085, 57212, 44955, 49082, 36825, 40952,
       28183, 32310, 20053, 24180, 11923, 16050, 3793, 7920
    >>

\* one iteration of the loop of calculate_crc16
crc_step(crc, byte) ==
    LET table_index == Xor16(crc \div 256, byte) % 256
    IN  Xor16((crc * 256) % 65536, CRC16_CCITT_TABLE[table_index + 1])

RECURSIVE crc_loop(_, _, _, _)
\* the loop of calculate_crc16 over bytes lo..hi of data.bytes(), in order,
\* starting from crc.  The range is split in halves, and the value after the
\* first half is computed before the second half starts, to keep the
\* evaluation shallow; the bytes are still folded left to right.
crc_loop(data, lo, hi, crc) ==
    IF lo > hi THEN crc
    ELSE IF lo = hi THEN crc_step(crc, data[lo])
    ELSE LET mid == (lo + hi) \div 2
             first == crc_loop(data, lo, mid, crc)
         IN  IF first \in Nat THEN crc_loop(data, mid + 1, hi, first) ELSE first

\* calculate_crc16 with the seed 0x0000
calculate_crc16_seed0(data) == Fmt04X(crc_loop(data, 1, Len(data), 0))

\* calculate_crc16: seed 0xFFFF, result as 4 upper-case hex digits
calculate_crc16(data) == Fmt04X(crc_loop(data, 1, Len(data), 65535))

\* "6304": tag 63, length 04
Tag6304 == <<54, 51, 48, 52>>

\* outcomes of verify_crc: it returns a bool, or the slice operator panics
VTrue == "true"
VFalse == "false"
VPanic == "panic"

\* verify_crc without the test of the 6304 header, the checksum taken over
\* the data and a literal "6304"
verify_crc_literal_header(qr_string) ==
    IF Len(qr_string) < 8 THEN VFalse
    ELSE LET crc_tag_start == Len(qr_string) - 8
         IN  IF \/ ~is_char_boundary(qr_string, crc_tag_start)
                \/ ~is_char_boundary(qr_string, crc_tag_start + 4)
             THEN VPanic
             ELSE LET provided_crc == SubSeq(qr_string, crc_tag_start + 5, Len(qr_string))
                      calculated_crc ==
                          calculate_crc16(SubSeq(qr_string, 1, crc_tag_start) \o Tag6304)
                  IN  IF to_uppercase(provided_crc) = to_uppercase(calculated_crc)
                      THEN VTrue ELSE VFalse

\* verify_crc
verify_crc(qr_string) ==
    IF Len(qr_string) < 8 THEN VFalse
    ELSE LET crc_tag_start == Len(qr_string) - 8
         IN  IF \/ ~is_char_boundary(qr_string, crc_tag_start)
                \/ ~is_char_boundary(qr_string, crc_tag_start + 4)
             THEN VPanic
             ELSE IF SubSeq(qr_string, crc_tag_start + 1, crc_tag_start + 4) # Tag6304
             THEN VFalse
             ELSE LET provided_crc == SubSeq(qr_string, crc_tag_start + 5, Len(qr_string))
                      payload_for_crc == SubSeq(qr_string, 1, crc_tag_start + 4)
                      calculated_crc == calculate_crc16(payload_for_crc)
                  IN  IF to_uppercase(provided_crc) = to_uppercase(calculated_crc)
                      THEN VTrue ELSE VFalse

(***************************************************************************)
(* Option<T> and Result<T, QRError>                                        *)
(***************************************************************************)
\* Option: None is the empty sequence, Some(x) the one-element sequence
None == <<>>
Some(x) == <<x>>
is_some(o) == o # <<>>
unwrap(o) == o[1]

\* Result: Ok(value) or Err(error)
Ok(v) == [ok |-> TRUE, value |-> v]
Err(e) == [ok |-> FALSE, err |-> e]

(***************************************************************************)
(* error.rs                                                                *)
(***************************************************************************)
MissingField(field) == [type |-> "MissingField", field |-> field]
InvalidValue(field, value) == [type |-> "InvalidValue", field |-> field, value |-> value]
ValueTooLong(field, length, max_length) ==
    [type |-> "ValueTooLong", field |-> field, length |-> length, max_length |-> max_length]
PayloadTooLong(length) == [type |-> "PayloadTooLong", length |-> length]

(***************************************************************************)
(* lib.rs: constants, tags, EMVTag                                         *)
(***************************************************************************)
PAYLOAD_FORMAT_INDICATOR == <<48, 49>>      \* constants: "01"
ETB_CURRENCY_CODE == <<50, 51, 48>>         \* "230"
ETHIOPIA_COUNTRY_CODE == <<69, 84>>         \* "ET"
MAX_QR_LENGTH == 512
STATIC_QR_POI == <<49, 49>>                 \* "11"
DYNAMIC_QR_POI == <<49, 50>>                \* "12"
MAX_MERCHANT_NAME_LEN == 25
MAX_MERCHANT_CITY_LEN == 15

TAG_PAYLOAD_FORMAT_INDICATOR == <<48, 48>>  \* tags: "00"
TAG_POINT_OF_INITIATION == <<48, 49>>       \* "01"
TAG_MERCHANT_CATEGORY_CODE == <<53, 50>>    \* "52"
TAG_TRANSACTION_CURRENCY == <<53, 51>>      \* "53"
TAG_TRANSACTION_AMOUNT == <<53, 52>>        \* "54"
TAG_COUNTRY_CODE == <<53, 56>>              \* "58"
TAG_MERCHANT_NAME == <<53, 57>>             \* "59"
TAG_MERCHANT_CITY == <<54, 48>>             \* "60"
TAG_ADDITIONAL_DATA == <<54, 50>>           \* "62"
TAG_CRC == <<54, 51>>                       \* "63"
TAG_TRANSACTION_CONTEXT == <<56, 48>>       \* "80"
TAG_VISA == <<48, 50>>                      \* "02"
TAG_MASTERCARD == <<48, 52>>                \* "04"
TAG_UNIONPAY == <<49, 53>>                  \* "15"
TAG_IPS_ET == <<50, 56>>                    \* "28"

\* EMVTag::new
EMVTag_new(id, value) == [id |-> id, value |-> value]

\* EMVTag::length: the byte length of the value
EMVTag_length(tag) == Len(tag.value)

\* EMVTag::encode: format!("{}{:02}{}", id, length, value)
EMVTag_encode(tag) == tag.id \o Fmt02(EMVTag_length(tag)) \o tag.value

\* tags.iter().map(encode).collect::<String>()
encode_all(tags) == Flatten([i \in 1..Len(tags) |-> EMVTag_encode(tags[i])])

(***************************************************************************)
(* fields.rs: AdditionalData                                               *)
(***************************************************************************)
\* the 13 optional sub-fields with their sub-tag IDs, in the order in which
\* AdditionalData::encode tests them
AD_FIELDS ==
    << <<"bill_number",              <<48, 49>> >>,    \* "01"
       <<"mobile_number",            <<48, 50>> >>,    \* "02"
       <<"store_label",              <<48, 51>> >>,    \* "03"
       <<"loyalty_number",           <<48, 52>> >>,    \* "04"
       <<"reference_label",          <<48, 53>> >>,    \* "05"
       <<"customer_label",           <<48, 54>> >>,    \* "06"
       <<"terminal_number",          <<48, 55>> >>,    \* "07"
       <<"purpose",                  <<48, 56>> >>,    \* "08"
       <<"additional_customer_data", <<48, 57>> >>,    \* "09"
       <<"merchant_tax_id",          <<49, 48>> >>,    \* "10"
       <<"merchant_channel",         <<49, 49>> >>,    \* "11"
       <<"due_date",                 <<53, 48>> >>,    \* "50"
       <<"amount_after_due_date",    <<53, 49>> >> >>  \* "51"

AD_FIELD_NAMES == {AD_FIELDS[i][1] : i \in 1..Len(AD_FIELDS)}

\* AdditionalData::new(): every sub-field None
AdditionalData_new == [f \in AD_FIELD_NAMES |-> None]

\* the setters of AdditionalData: field = Some(value), nothing else changes
AdditionalData_set(ad, f, value) == [ad EXCEPT ![f] = Some(value)]

\* the sub_tags vector filled from the last sub-field to the first
AdditionalData_sub_tags_reversed(ad) ==
    Flatten([i \in 1..Len(AD_FIELDS) |->
               LET k == Len(AD_FIELDS) + 1 - i
               IN  IF is_some(ad[AD_FIELDS[k][1]])
                   THEN <<EMVTag_new(AD_FIELDS[k][2], unwrap(ad[AD_FIELDS[k][1]]))>>
                   ELSE <<>>])

\* the sub_tags vector of AdditionalData::encode
AdditionalData_sub_tags(ad) ==
    Flatten([i \in 1..Len(AD_FIELDS) |->
               IF is_some(ad[AD_FIELDS[i][1]])
               THEN <<EMVTag_new(AD_FIELDS[i][2], unwrap(ad[AD_FIELDS[i][1]]))>>
               ELSE <<>>])

\* AdditionalData::encode without its is_empty test: the tag is made whatever
\* sub_tags holds
AdditionalData_encode_always(ad) ==
    Some(EMVTag_new(TAG_ADDITIONAL_DATA, encode_all(AdditionalData_sub_tags(ad))))

\* AdditionalData::encode
AdditionalData_encode(ad) ==
    LET sub_tags == AdditionalData_sub_tags(ad)
    IN  IF sub_tags = <<>> THEN None
        ELSE Some(EMVTag_new(TAG_ADDITIONAL_DATA, encode_all(sub_tags)))

(***************************************************************************)
(* fields.rs: SchemeConfig                                                 *)
(***************************************************************************)
Visa(account_info) == [kind |-> "Visa", account_info |-> account_info]
Mastercard(account_info) == [kind |-> "Mastercard", account_info |-> account_info]
UnionPay(account_info) == [kind |-> "UnionPay", account_info |-> account_info]
IPSET(guid, bic, account) == [kind |-> "IPSET", guid |-> guid, bic |-> bic, account |-> account]

\* guid.chars().all(|c| c.is_ascii_alphanumeric()): a byte of a multi-byte
\* character is no ASCII alphanumeric
all_ascii_alphanumeric(s) == \A i \in 1..Len(s) : is_ascii_alphanumeric(s[i])

\* the IPSET arm without the test of the account length
IPSET_encode_any_account(guid, bic, account) ==
    IF Len(guid) # 32 \/ ~all_ascii_alphanumeric(guid)
    THEN Err(InvalidValue("guid", guid))
    ELSE IF Len(bic) # 8 /\ Len(bic) # 11
    THEN Err(InvalidValue("bic", bic))
    ELSE Ok(EMVTag_new(TAG_IPS_ET,
                       EMVTag_encode(EMVTag_new(<<48, 48>>, guid))
                       \o EMVTag_encode(EMVTag_new(<<48, 49>>, bic))
                       \o EMVTag_encode(EMVTag_new(<<48, 50>>, account))))

\* the IPSET arm with the BIC test accepting 8 bytes only
IPSET_encode_bic8(guid, bic, account) ==
    IF Len(guid) # 32 \/ ~all_ascii_alphanumeric(guid)
    THEN Err(InvalidValue("guid", guid))
    ELSE IF Len(bic) # 8
    THEN Err(InvalidValue("bic", bic))
    ELSE IF Len(account) > 24
    THEN Err(InvalidValue("account", account))
    ELSE Ok(EMVTag_new(TAG_IPS_ET,
                       EMVTag_encode(EMVTag_new(<<48, 48>>, guid))
                       \o EMVTag_encode(EMVTag_new(<<48, 49>>, bic))
                       \o EMVTag_encode(EMVTag_new(<<48, 50>>, account))))

\* the IPSET arm of SchemeConfig::encode
IPSET_encode(guid, bic, account) ==
    IF Len(guid) # 32 \/ ~all_ascii_alphanumeric(guid)
    THEN Err(InvalidValue("guid", guid))
    ELSE IF Len(bic) # 8 /\ Len(bic) # 11
    THEN Err(InvalidValue("bic", bic))
    ELSE IF Len(account) > 24
    THEN Err(InvalidValue("account", account))
    ELSE LET sub_tag_00 == EMVTag_new(<<48, 48>>, guid)
             sub_tag_01 == EMVTag_new(<<48, 49>>, bic)
             sub_tag_02 == EMVTag_new(<<48, 50>>, account)
             value == EMVTag_encode(sub_tag_00) \o EMVTag_encode(sub_tag_01)
                      \o EMVTag_encode(sub_tag_02)
         IN  Ok(EMVTag_new(TAG_IPS_ET, value))

\* SchemeConfig::encode
SchemeConfig_encode(scheme) ==
    CASE scheme.kind = "Visa" -> Ok(EMVTag_new(TAG_VISA, scheme.account_info))
      [] scheme.kind = "Mastercard" -> Ok(EMVTag_new(TAG_MASTERCARD, scheme.account_info))
      [] scheme.kind = "UnionPay" -> Ok(EMVTag_new(TAG_UNIONPAY, scheme.account_info))
      [] scheme.kind = "IPSET" -> IPSET_encode(scheme.guid, scheme.bic, scheme.account)

(***************************************************************************)
(* lib.rs: QRBuilder                                                       *)
(***************************************************************************)
\* QRBuilder::new(): Default of every field
QRBuilder_new ==
    [payload_format_indicator |-> <<>>,
     point_of_initiation      |-> None,
     merchant_name            |-> <<>>,
     merchant_city            |-> <<>>,
     merchant_category_code   |-> <<>>,
     schemes                  |-> <<>>,
     transaction_amount       |-> None,
     transaction_currency     |-> <<>>,
     additional_data          |-> None,
     transaction_context      |-> None]

\* merchant_category_code.chars().all(|c| c.is_ascii_digit())
all_ascii_digit(s) == \A i \in 1..Len(s) : is_ascii_digit(s[i])

\* validate with the name limit tested by >=
validate_name_ge(b) ==
    IF Len(b.merchant_name) >= MAX_MERCHANT_NAME_LEN
    THEN Err(ValueTooLong("name", Len(b.merchant_name), MAX_MERCHANT_NAME_LEN))
    ELSE IF Len(b.merchant_city) > MAX_MERCHANT_CITY_LEN
    THEN Err(ValueTooLong("city", Len(b.merchant_city), MAX_MERCHANT_CITY_LEN))
    ELSE IF Len(b.merchant_category_code) # 4 \/ ~all_ascii_digit(b.merchant_category_code)
    THEN Err(InvalidValue("category_code", b.merchant_category_code))
    ELSE IF b.schemes = <<>>
    THEN Err(MissingField("schemes"))
    ELSE Ok(<<>>)

\* QRBuilder::validate
validate(b) ==
    IF Len(b.merchant_name) > MAX_MERCHANT_NAME_LEN
    THEN Err(ValueTooLong("name", Len(b.merchant_name), MAX_MERCHANT_NAME_LEN))
    ELSE IF Len(b.merchant_city) > MAX_MERCHANT_CITY_LEN
    THEN Err(ValueTooLong("city", Len(b.merchant_city), MAX_MERCHANT_CITY_LEN))
    ELSE IF Len(b.merchant_category_code) # 4 \/ ~all_ascii_digit(b.merchant_category_code)
    THEN Err(InvalidValue("category_code", b.merchant_category_code))
    ELSE IF b.schemes = <<>>
    THEN Err(MissingField("schemes"))
    ELSE Ok(<<>>)

\* the point of initiation always static
derive_poi_static(b) == Some(STATIC_QR_POI)

\* build, the derived point of initiation
derive_poi(b) ==
    IF is_some(b.transaction_amount) THEN Some(DYNAMIC_QR_POI) ELSE Some(STATIC_QR_POI)

\* build, the fields it writes once validation has passed
build_self(b) ==
    [b EXCEPT !.point_of_initiation = derive_poi(b),
              !.payload_format_indicator = PAYLOAD_FORMAT_INDICATOR,
              !.transaction_currency = ETB_CURRENCY_CODE]

RECURSIVE scheme_tags(_, _, _)
\* build, the loop over self.schemes from scheme i on: tags.push(scheme.encode()?)
\* returns the first error, or the tags pushed
scheme_tags(schemes, i, tags) ==
    IF i > Len(schemes) THEN Ok(tags)
    ELSE LET r == SchemeConfig_encode(schemes[i])
         IN  IF r.ok THEN scheme_tags(schemes, i + 1, Append(tags, r.value))
             ELSE r

\* the tags after the schemes with the merchant city pushed before the name
tail_tags_city_first(b) ==
       <<EMVTag_new(TAG_MERCHANT_CATEGORY_CODE, b.merchant_category_code),
         EMVTag_new(TAG_TRANSACTION_CURRENCY, b.transaction_currency)>>
    \o (IF is_some(b.transaction_amount)
        THEN <<EMVTag_new(TAG_TRANSACTION_AMOUNT, unwrap(b.transaction_amount))>>
        ELSE <<>>)
    \o <<EMVTag_new(TAG_COUNTRY_CODE, ETHIOPIA_COUNTRY_CODE),
         EMVTag_new(TAG_MERCHANT_CITY, b.merchant_city),
         EMVTag_new(TAG_MERCHANT_NAME, b.merchant_name)>>
    \o (IF /\ is_some(b.additional_data)
           /\ is_some(AdditionalData_encode(unwrap(b.additional_data)))
        THEN <<unwrap(AdditionalData_encode(unwrap(b.additional_data)))>>
        ELSE <<>>)
    \o (IF is_some(b.transaction_context)
        THEN <<EMVTag_new(TAG_TRANSACTION_CONTEXT, unwrap(b.transaction_context))>>
        ELSE <<>>)

\* build, the tags pushed after the schemes, b being the builder after
\* build_self
tail_tags(b) ==
       <<EMVTag_new(TAG_MERCHANT_CATEGORY_CODE, b.merchant_category_code),
         EMVTag_new(TAG_TRANSACTION_CURRENCY, b.transaction_currency)>>
    \o (IF is_some(b.transaction_amount)
        THEN <<EMVTag_new(TAG_TRANSACTION_AMOUNT, unwrap(b.transaction_amount))>>
        ELSE <<>>)
    \o <<EMVTag_new(TAG_COUNTRY_CODE, ETHIOPIA_COUNTRY_CODE),
         EMVTag_new(TAG_MERCHANT_NAME, b.merchant_name),
         EMVTag_new(TAG_MERCHANT_CITY, b.merchant_city)>>
    \o (IF /\ is_some(b.additional_data)
           /\ is_some(AdditionalData_encode(unwrap(b.additional_data)))
        THEN <<unwrap(AdditionalData_encode(unwrap(b.additional_data)))>>
        ELSE <<>>)
    \o (IF is_some(b.transaction_context)
        THEN <<EMVTag_new(TAG_TRANSACTION_CONTEXT, unwrap(b.transaction_context))>>
        ELSE <<>>)

\* build, the tags pushed before the schemes
head_tags(b) ==
       <<EMVTag_new(TAG_PAYLOAD_FORMAT_INDICATOR, b.payload_format_indicator)>>
    \o (IF is_some(b.point_of_initiation)
        THEN <<EMVTag_new(TAG_POINT_OF_INITIATION, unwrap(b.point_of_initiation))>>
        ELSE <<>>)

\* build, the whole tags vector, or the error of the first scheme that does
\* not encode
build_tags(b) ==
    LET r == scheme_tags(b.schemes, 1, head_tags(b))
    IN  IF r.ok THEN Ok(r.value \o tail_tags(b)) ELSE r

\* the checksum taken over the payload without the 6304 that follows it
build_crc_no_header(payload) == calculate_crc16(payload)

\* build, the checksum: calculate_crc16(&format!("{}6304", payload))
build_crc(payload) == calculate_crc16(payload \o Tag6304)

\* build, the payload with its CRC record:
\* payload.push_str(&format!("63{:02}{}", crc.len(), crc))
build_payload(tags) ==
    LET payload == encode_all(tags)
        crc == build_crc(payload)
    IN  payload \o TAG_CRC \o Fmt02(Len(crc)) \o crc

\* the length check with >= in place of >
check_length_ge(payload) ==
    IF Len(payload) >= MAX_QR_LENGTH THEN Err(PayloadTooLong(Len(payload)))
    ELSE Ok(payload)

\* build, the length check
check_length(payload) ==
    IF Len(payload) > MAX_QR_LENGTH THEN Err(PayloadTooLong(Len(payload)))
    ELSE Ok(payload)

\* build encoding the schemes before it validates
build_result_encode_first(b) ==
    LET t == build_tags(build_self(b))
    IN  IF ~t.ok THEN t
        ELSE LET v == validate(b)
             IN  IF ~v.ok THEN v ELSE check_length(build_payload(t.value))

\* QRBuilder::build, the value returned
build_result(b) ==
    LET v == validate(b)
    IN  IF ~v.ok THEN v
        ELSE LET t == build_tags(build_self(b))
             IN  IF ~t.ok THEN t
                 ELSE check_length(build_payload(t.value))

\* build draining the scheme list while it encodes the schemes
build_after_drain(b) ==
    IF validate(b).ok THEN [build_self(b) EXCEPT !.schemes = <<>>] ELSE b

\* QRBuilder::build, the builder it leaves: untouched when validation fails
build_after(b) == IF validate(b).ok THEN build_self(b) ELSE b

(***************************************************************************)
(* Inputs of the builder specification.                                    *)
(***************************************************************************)
\* the Ethiopic syllable U+12A0 in UTF-8: three bytes, one character, no case
ETH == <<225, 138, 160>>

\* merchant names: 25 bytes (9 characters) and 26 bytes (10 characters)
Name25 == Flatten(Rep(ETH, 8)) \o <<65>>
Name26 == Flatten(Rep(ETH, 8)) \o <<65, 66>>
NAMES == {Name25, Name26}

\* merchant cities: 15 bytes (5 characters) and 16 bytes (6 characters)
City15 == Flatten(Rep(ETH, 5))
City16 == Flatten(Rep(ETH, 5)) \o <<65>>
CITIES == {City15, City16}

\* category codes "5812" and "581a"
Code5812 == <<53, 56, 49, 50>>
Code581a == <<53, 56, 49, 97>>
CODES == {Code5812, Code581a}

\* "581b314e257f41bfbbdc6384daa31d16", "CBETETAA", "10000171234567890"
Guid32 ==
    <<53, 56, 49, 98, 51, 49, 52, 101, 50, 53, 55, 102, 52, 49, 98, 102,
      98, 98, 100, 99, 54, 51, 56, 52, 100, 97, 97, 51, 49, 100, 49, 54>>
Bic8 == <<67, 66, 69, 84, 69, 84, 65, 65>>
Account17 == <<49, 48, 48, 48, 48, 49, 55, 49, 50, 51, 52, 53, 54, 55, 56, 57, 48>>

\* SchemeConfig::visa("4111111111111111")
VisaScheme == Visa(<<52, 49, 49, 49, 49, 49, 49, 49, 49, 49, 49, 49, 49, 49, 49, 49>>)
\* SchemeConfig::ips_et of the three values above
IpsEtScheme == IPSET(Guid32, Bic8, Account17)
\* the same with the 9-byte BIC "CBETETAAX", which does not encode
BadBicScheme == IPSET(Guid32, Bic8 \o <<88>>, Account17)
\* the same with a GUID of 31 bytes as well, which does not encode either
BadGuidScheme == IPSET(SubSeq(Guid32, 1, 31), Bic8 \o <<88>>, Account17)
SCHEMES == {VisaScheme, IpsEtScheme, BadBicScheme, BadGuidScheme}

\* transaction amount "50.00"
Amount5000 == <<53, 48, 46, 48, 48>>
AMOUNTS == {Amount5000}

\* AdditionalData::new().bill_number("INV-001").reference_label("ORDER-123")
BillAndReference ==
    AdditionalData_set(
        AdditionalData_set(AdditionalData_new, "bill_number",
                           <<73, 78, 86, 45, 48, 48, 49>>),
        "reference_label", <<79, 82, 68, 69, 82, 45, 49, 50, 51>>)
DATAS == {AdditionalData_new, BillAndReference}

\* transaction contexts: "ctx", 100 bytes "AA..A", 413 bytes "AA..A"
CtxShort == <<99, 116, 120>>
Ctx100 == Rep(65, 100)
Ctx413 == Rep(65, 413)
CONTEXTS == {CtxShort, Ctx100, Ctx413}

(***************************************************************************)
(* The builder as a state machine: self is the QRBuilder, result the value *)
(* returned by the latest call when that call was build (None after a      *)
(* setter, which returns the builder).                                     *)
(***************************************************************************)
\* no call of the pure functions is in progress
Idle == [fn |-> "none"]

Init ==
    /\ self = QRBuilder_new
    /\ result = None
    /\ adata = None
    /\ call = Idle
    /\ ret = None

merchant_name(name) ==
    /\ self' = [self EXCEPT !.merchant_name = name]
    /\ result' = None
    /\ UNCHANGED <<adata, call, ret>>

merchant_city(city) ==
    /\ self' = [self EXCEPT !.merchant_city = city]
    /\ result' = None
    /\ UNCHANGED <<adata, call, ret>>

merchant_category_code(code) ==
    /\ self' = [self EXCEPT !.merchant_category_code = code]
    /\ result' = None
    /\ UNCHANGED <<adata, call, ret>>

\* add_scheme inserting at the front of the list
add_scheme_front(scheme) ==
    /\ Len(self.schemes) < MaxSchemes
    /\ self' = [self EXCEPT !.schemes = <<scheme>> \o @]
    /\ result' = None
    /\ UNCHANGED <<adata, call, ret>>

add_scheme(scheme) ==
    /\ Len(self.schemes) < MaxSchemes
    /\ self' = [self EXCEPT !.schemes = Append(@, scheme)]
    /\ result' = None
    /\ UNCHANGED <<adata, call, ret>>

transaction_amount(amount) ==
    /\ self' = [self EXCEPT !.transaction_amount = Some(amount)]
    /\ result' = None
    /\ UNCHANGED <<adata, call, ret>>

additional_data(d) ==
    /\ self' = [self EXCEPT !.additional_data = Some(d)]
    /\ result' = None
    /\ UNCHANGED <<adata, call, ret>>

transaction_context(context) ==
    /\ self' = [self EXCEPT !.transaction_context = Some(context)]
    /\ result' = None
    /\ UNCHANGED <<adata, call, ret>>

build ==
    /\ self' = build_after(self)
    /\ result' = Some(build_result(self))
    /\ UNCHANGED <<adata, call, ret>>

Next ==
    \/ \E name \in NAMES : merchant_name(name)
    \/ \E city \in CITIES : merchant_city(city)
    \/ \E code \in CODES : merchant_category_code(code)
    \/ \E scheme \in SCHEMES : add_scheme(scheme)
    \/ \E amount \in AMOUNTS : transaction_amount(amount)
    \/ \E d \in DATAS : additional_data(d)
    \/ \E context \in CONTEXTS : transaction_context(context)
    \/ build

Spec == Init /\ [][Next]_vars

(***************************************************************************)
(* Reading a payload back: the wire format of the specification, used to   *)
(* state the claims (no part of the program).                              *)
(***************************************************************************)
\* the latest call was build and it returned Ok
BuiltOk == result # None /\ result[1].ok
\* the latest call was build and it returned Err
BuiltErr == result # None /\ ~result[1].ok

RECURSIVE LeadingRecords(_)
\* the TLV records read from the front of s, each a 2-byte ID, two decimal
\* digits of length and that many bytes of value, up to the first place where
\* no such record starts
LeadingRecords(s) ==
    IF Len(s) < 4 \/ ~is_ascii_digit(s[3]) \/ ~is_ascii_digit(s[4]) THEN <<>>
    ELSE LET n == 10 * (s[3] - 48) + (s[4] - 48)
         IN  IF Len(s) < 4 + n THEN <<>>
             ELSE <<[id |-> SubSeq(s, 1, 2), value |-> SubSeq(s, 5, 4 + n)]>>
                  \o LeadingRecords(SubSeq(s, 5 + n, Len(s)))

\* the bytes the records take on the wire
RecordsLen(recs) == Len(Flatten([i \in 1..Len(recs) |-> <<0, 0, 0, 0>> \o recs[i].value]))

\* s is a concatenation of well-formed TLV records and nothing else
IsRecords(s) == RecordsLen(LeadingRecords(s)) = Len(s)

\* an upper-case hexadecimal digit
IsUpperHex(b) == is_ascii_digit(b) \/ (b >= 65 /\ b <= 70)

\* the wire format of a payload: well-formed records at the top level and
\* inside tags 28 and 62, the last record being 6304 and 4 upper-case hex digits
WellFormedPayload(p) ==
    LET recs == LeadingRecords(p)
    IN  /\ IsRecords(p)
        /\ recs # <<>>
        /\ recs[Len(recs)].id = TAG_CRC
        /\ Len(recs[Len(recs)].value) = 4
        /\ \A i \in 1..4 : IsUpperHex(recs[Len(recs)].value[i])
        /\ \A i \in 1..Len(recs) :
              recs[i].id \in {TAG_IPS_ET, TAG_ADDITIONAL_DATA} => IsRecords(recs[i].value)

\* the IDs of a sequence of records
Ids(recs) == [i \in 1..Len(recs) |-> recs[i].id]

\* the length field of a value of n bytes as it is written: decimal, at least
\* two digits
LengthField(n) == (IF n < 10 THEN <<48>> ELSE <<>>) \o Decimal(n)

(***************************************************************************)
(* C1                                                                      *)
(***************************************************************************)
\* C1: every payload build returns as Ok passes verify_crc
C1_RoundTrip == BuiltOk => verify_crc(result[1].value) = VTrue

\* a payload with a non-ASCII merchant name and city, an amount, additional
\* data and a context was returned
C1_Witness ==
    /\ BuiltOk
    /\ self.merchant_name = Name25
    /\ self.merchant_city = City15
    /\ self.transaction_amount = Some(Amount5000)
    /\ self.additional_data = Some(BillAndReference)
    /\ self.transaction_context = Some(CtxShort)
    /\ Len(self.schemes) = 2

(***************************************************************************)
(* C2                                                                      *)
(***************************************************************************)
\* C2: every payload build returns as Ok is in the wire format: well-formed
\* TLV records with two-digit lengths at the top level and inside tags 28 and
\* 62, ending with the record 6304 and 4 upper-case hex digits
C2_WireFormat == BuiltOk => WellFormedPayload(result[1].value)

(***************************************************************************)
(* C3                                                                      *)
(***************************************************************************)
\* the error of a Result as (type, field), <<"Ok">> for Ok
ErrorKey(r) ==
    IF r.ok THEN <<"Ok">>
    ELSE IF r.err.type = "PayloadTooLong" THEN <<"PayloadTooLong", "">>
    ELSE <<r.err.type, r.err.field>>

\* the category code is exactly 4 ASCII digits
FourDigits(code) == Len(code) = 4 /\ \A i \in 1..4 : code[i] \in 48..57

\* the four validation errors
ValidationKeys ==
    {<<"ValueTooLong", "name">>, <<"ValueTooLong", "city">>,
     <<"InvalidValue", "category_code">>, <<"MissingField", "schemes">>}

\* C3: build returns the error of the first violated rule, in the order name
\* longer than 25 bytes, city longer than 15 bytes, category code not 4 ASCII
\* digits, no scheme; with no rule violated validation passes (build writes
\* the point of initiation and returns no validation error), as for a name of
\* 25 bytes, a city of 15 bytes, code "5812" and one scheme
C3_ValidationOrder ==
    result # None =>
        LET key == ErrorKey(result[1])
        IN  IF Len(self.merchant_name) > 25
            THEN key = <<"ValueTooLong", "name">>
            ELSE IF Len(self.merchant_city) > 15
            THEN key = <<"ValueTooLong", "city">>
            ELSE IF ~FourDigits(self.merchant_category_code)
            THEN key = <<"InvalidValue", "category_code">>
            ELSE IF Len(self.schemes) = 0
            THEN key = <<"MissingField", "schemes">>
            ELSE /\ key \notin ValidationKeys
                 /\ validate(self) = Ok(<<>>)
                 /\ is_some(self.point_of_initiation)

\* build was called with all four rules violated and returned the name error
C3_Witness ==
    /\ BuiltErr
    /\ ErrorKey(result[1]) = <<"ValueTooLong", "name">>
    /\ self.merchant_name = Name26
    /\ self.merchant_city = City16
    /\ self.merchant_category_code = Code581a
    /\ self.schemes = <<>>

(***************************************************************************)
(* C4                                                                      *)
(***************************************************************************)
\* the bytes of one record with a value of n bytes: the ID, the length as
\* format!("{:02}") writes it, the value
RecordBytes(n) == 2 + (IF n < 100 THEN 2 ELSE IF n < 1000 THEN 3 ELSE 4) + n

\* the bytes of the value of a scheme's tag
SchemeValueBytes(s) ==
    IF s.kind = "IPSET"
    THEN RecordBytes(Len(s.guid)) + RecordBytes(Len(s.bic)) + RecordBytes(Len(s.account))
    ELSE Len(s.account_info)

RECURSIVE SchemesBytes(_)
SchemesBytes(ss) ==
    IF ss = <<>> THEN 0
    ELSE RecordBytes(SchemeValueBytes(Head(ss))) + SchemesBytes(Tail(ss))

RECURSIVE FieldsBytes(_, _)
\* the bytes of the sub-records of the sub-fields i.. of an AdditionalData
FieldsBytes(ad, i) ==
    IF i > Len(AD_FIELDS) THEN 0
    ELSE (IF ad[AD_FIELDS[i][1]] = None THEN 0
          ELSE RecordBytes(Len(ad[AD_FIELDS[i][1]][1])))
         + FieldsBytes(ad, i + 1)

\* some sub-field of the builder's additional data is set
AnySubField(b) ==
    /\ b.additional_data # None
    /\ \E f \in AD_FIELD_NAMES : b.additional_data[1][f] # None

\* the byte length of the assembled string, CRC record included, counted
\* tag by tag
AssembledBytes(b) ==
      6 + 6 + SchemesBytes(b.schemes)
    + RecordBytes(Len(b.merchant_category_code)) + 7
    + (IF b.transaction_amount = None THEN 0 ELSE RecordBytes(Len(b.transaction_amount[1])))
    + 6 + RecordBytes(Len(b.merchant_name)) + RecordBytes(Len(b.merchant_city))
    + (IF AnySubField(b) THEN RecordBytes(FieldsBytes(b.additional_data[1], 1)) ELSE 0)
    + (IF b.transaction_context = None THEN 0 ELSE RecordBytes(Len(b.transaction_context[1])))
    + 8

\* validation passes and every scheme encodes
Assembles(b) ==
    /\ validate(b).ok
    /\ \A i \in 1..Len(b.schemes) : SchemeConfig_encode(b.schemes[i]).ok

\* C4: when validation passes and every scheme encodes, build returns
\* PayloadTooLong{length} exactly when the assembled string with its CRC record
\* is longer than 512 bytes, length being that byte length; otherwise it
\* returns the whole string, which is at most 512 bytes long
C4_LengthCeiling ==
    (result # None /\ Assembles(self)) =>
        LET n == AssembledBytes(self)
        IN  IF n > 512
            THEN result[1] = Err(PayloadTooLong(n))
            ELSE /\ result[1].ok
                 /\ Len(result[1].value) = n
                 /\ Len(result[1].value) <= 512

\* build returned PayloadTooLong for a configuration that assembles
C4_Witness ==
    /\ BuiltErr
    /\ Assembles(self)
    /\ result[1].err.type = "PayloadTooLong"
    /\ result[1].err.length > 512

\* a payload of exactly 512 bytes was returned
C4_Boundary == BuiltOk /\ Len(result[1].value) = 512

(***************************************************************************)
(* C5                                                                      *)
(***************************************************************************)
\* the tag ID of a scheme
SchemeId(s) ==
    CASE s.kind = "Visa" -> TAG_VISA
      [] s.kind = "Mastercard" -> TAG_MASTERCARD
      [] s.kind = "UnionPay" -> TAG_UNIONPAY
      [] s.kind = "IPSET" -> TAG_IPS_ET

\* the top-level tag IDs of the claim, in order, for configuration b
ExpectedIds(b) ==
       <<TAG_PAYLOAD_FORMAT_INDICATOR, TAG_POINT_OF_INITIATION>>
    \o [i \in 1..Len(b.schemes) |-> SchemeId(b.schemes[i])]
    \o <<TAG_MERCHANT_CATEGORY_CODE, TAG_TRANSACTION_CURRENCY>>
    \o (IF b.transaction_amount # None THEN <<TAG_TRANSACTION_AMOUNT>> ELSE <<>>)
    \o <<TAG_COUNTRY_CODE, TAG_MERCHANT_NAME, TAG_MERCHANT_CITY>>
    \o (IF AnySubField(b) THEN <<TAG_ADDITIONAL_DATA>> ELSE <<>>)
    \o (IF b.transaction_context # None THEN <<TAG_TRANSACTION_CONTEXT>> ELSE <<>>)
    \o <<TAG_CRC>>

\* the value of the first record with the given ID, <<>> when there is none
ValueOf(recs, id) ==
    IF \E i \in 1..Len(recs) : recs[i].id = id
    THEN recs[CHOOSE i \in 1..Len(recs) :
                 recs[i].id = id /\ \A j \in 1..(i - 1) : recs[j].id # id].value
    ELSE <<>>

\* the context, the only value of the builder specification's inputs that can
\* reach 100 bytes, is shorter than 100 bytes or absent
TwoDigitLengths(b) ==
    b.transaction_context = None \/ Len(b.transaction_context[1]) < 100

\* the records in front of the context tag: everything up to the bytes the
\* context record and the CRC record take
BeforeContext(b, p) ==
    IF b.transaction_context = None THEN SubSeq(p, 1, Len(p) - 8)
    ELSE SubSeq(p, 1, Len(p) - 8 - RecordBytes(Len(b.transaction_context[1])))

\* the context record and the CRC record at the end of the payload
FromContext(b, p) == SubSeq(p, Len(BeforeContext(b, p)) + 1, Len(p))

\* C5: the top-level tags of a returned payload are, in order, 00 ("01"), 01,
\* one per scheme in add_scheme order, 52, 53 ("230"), 54 if an amount is set,
\* 58 ("ET"), 59, 60, 62 if a sub-field is set, 80 if a context is set, 63 last
C5_TagOrder ==
    BuiltOk =>
        LET p == result[1].value
            front == LeadingRecords(BeforeContext(self, p))
            back == FromContext(self, p)
            ids == Ids(front)
                   \o (IF self.transaction_context = None THEN <<>>
                       ELSE <<SubSeq(back, 1, 2)>>)
                   \o <<SubSeq(p, Len(p) - 7, Len(p) - 6)>>
        IN  /\ IsRecords(BeforeContext(self, p))
            /\ ids = ExpectedIds(self)
            /\ ValueOf(front, TAG_PAYLOAD_FORMAT_INDICATOR) = <<48, 49>>
            /\ ValueOf(front, TAG_TRANSACTION_CURRENCY) = <<50, 51, 48>>
            /\ ValueOf(front, TAG_COUNTRY_CODE) = <<69, 84>>
            /\ ValueOf(front, TAG_MERCHANT_NAME) = self.merchant_name
            /\ ValueOf(front, TAG_MERCHANT_CITY) = self.merchant_city
            /\ ValueOf(front, TAG_MERCHANT_CATEGORY_CODE) = self.merchant_category_code
            /\ self.transaction_context # None =>
                   back = TAG_TRANSACTION_CONTEXT
                          \o LengthField(Len(self.transaction_context[1]))
                          \o self.transaction_context[1]
                          \o SubSeq(p, Len(p) - 7, Len(p))
            /\ TwoDigitLengths(self) => Ids(LeadingRecords(p)) = ExpectedIds(self)

\* a payload with two different schemes and every optional tag was returned
C5_Witness ==
    /\ BuiltOk
    /\ self.schemes = <<IpsEtScheme, VisaScheme>>
    /\ self.transaction_amount # None
    /\ AnySubField(self)
    /\ self.transaction_context = Some(CtxShort)

(***************************************************************************)
(* C6                                                                      *)
(***************************************************************************)
\* C6: a returned payload starts 000201 0102 and then "12" when an amount is
\* set, "11" when none is; it holds a tag 54 exactly when an amount is set,
\* with the amount as its value; the point of initiation the builder holds is
\* the derived one
C6_ModeDerivation ==
    BuiltOk =>
        LET p == result[1].value
            front == LeadingRecords(BeforeContext(self, p))
            dynamic == self.transaction_amount # None
        IN  /\ Len(front) >= 2
            /\ front[2].id = <<48, 49>>
            /\ front[2].value = (IF dynamic THEN <<49, 50>> ELSE <<49, 49>>)
            /\ \A i \in 1..Len(front) : i # 2 => front[i].id # <<48, 49>>
            /\ dynamic <=> (\E i \in 1..Len(front) : front[i].id = <<53, 52>>)
            /\ dynamic => ValueOf(front, <<53, 52>>) = self.transaction_amount[1]
            /\ self.point_of_initiation
                  = Some(IF dynamic THEN <<49, 50>> ELSE <<49, 49>>)

\* a dynamic payload was returned: it starts 000201 0102 12
C6_Witness ==
    /\ BuiltOk
    /\ self.transaction_amount = Some(Amount5000)
    /\ SubSeq(result[1].value, 1, 12) = <<48, 48, 48, 50, 48, 49, 48, 49, 48, 50, 49, 50>>

(***************************************************************************)
(* AdditionalData built with its setters, moved into a configured builder  *)
(* and built: adata is the AdditionalData value the caller holds (None     *)
(* once it has been moved into the builder), call and ret the latest       *)
(* direct call of an encoder and what it returned.                         *)
(***************************************************************************)
\* the most sub-fields set on one AdditionalData
MaxSubFields == 2

\* values given to the setters: "" and "A1"
AD_VALUES == {<<>>, <<65, 49>>}

\* a builder on which merchant_name, merchant_city, merchant_category_code
\* and add_scheme have been called
ConfiguredBuilder ==
    [QRBuilder_new EXCEPT !.merchant_name = Name25,
                          !.merchant_city = City15,
                          !.merchant_category_code = Code5812,
                          !.schemes = <<VisaScheme>>]

\* the sub-fields of ad that are set
SetFields(ad) == {f \in AD_FIELD_NAMES : ad[f] # None}

InitAD ==
    /\ self = ConfiguredBuilder
    /\ result = None
    /\ adata = Some(AdditionalData_new)
    /\ call = Idle
    /\ ret = None

\* one of the 13 setters of AdditionalData
ad_setter(f, value) ==
    /\ adata # None
    /\ f \in SetFields(unwrap(adata)) \/ Cardinality(SetFields(unwrap(adata))) < MaxSubFields
    /\ adata' = Some(AdditionalData_set(unwrap(adata), f, value))
    /\ call' = [fn |-> "AdditionalData::set", field |-> f, value |-> value]
    /\ ret' = None
    /\ UNCHANGED <<self, result>>

\* AdditionalData::encode called on the value the caller holds
ad_encode ==
    /\ adata # None
    /\ call' = [fn |-> "AdditionalData::encode", arg |-> unwrap(adata)]
    /\ ret' = AdditionalData_encode(unwrap(adata))
    /\ UNCHANGED <<self, result, adata>>

\* QRBuilder::additional_data(data): the value is moved into the builder
additional_data_moved ==
    /\ adata # None
    /\ self' = [self EXCEPT !.additional_data = adata]
    /\ result' = None
    /\ adata' = None
    /\ call' = Idle
    /\ ret' = None

NextAD ==
    \/ \E f \in AD_FIELD_NAMES, value \in AD_VALUES : ad_setter(f, value)
    \/ ad_encode
    \/ additional_data_moved
    \/ build

SpecAD == InitAD /\ [][NextAD]_vars

(***************************************************************************)
(* C7                                                                      *)
(***************************************************************************)
\* C7: AdditionalData::encode returns None exactly when no sub-field is set;
\* a payload built with no additional data, or with additional data in which
\* no sub-field is set, has no top-level tag 62; no payload has a tag 62 with
\* an empty value
C7_EmptyOmitted ==
    /\ call.fn = "AdditionalData::encode" =>
           (ret = None <=> \A f \in AD_FIELD_NAMES : call.arg[f] = None)
    /\ BuiltOk =>
           LET recs == LeadingRecords(result[1].value)
           IN  /\ IsRecords(result[1].value)
               /\ ~AnySubField(self) =>
                      \A i \in 1..Len(recs) : recs[i].id # <<54, 50>>
               /\ \A i \in 1..Len(recs) :
                      recs[i].id = <<54, 50>> => recs[i].value # <<>>

\* a payload was built from a builder given AdditionalData::new() unchanged
C7_Witness ==
    /\ BuiltOk
    /\ self.additional_data = Some(AdditionalData_new)

(***************************************************************************)
(* SchemeConfig::encode on its own                                         *)
(***************************************************************************)
\* GUIDs: the 32 characters above; its first 31; 33 characters; 32 with a
\* hyphen; 29 ASCII characters and one Ethiopic syllable (32 bytes)
GUIDS ==
    {Guid32, SubSeq(Guid32, 1, 31), Guid32 \o <<55>>,
     [Guid32 EXCEPT ![9] = 45], SubSeq(Guid32, 1, 29) \o ETH}

\* BICs of 8, 11, 9 and 0 bytes, and one of 8 bytes holding an Ethiopic syllable
BICS ==
    {Bic8, Bic8 \o <<88, 88, 88>>, Bic8 \o <<88>>, <<>>, ETH \o SubSeq(Bic8, 1, 5)}

\* nine Ethiopic syllables: 9 characters, 27 bytes
Eth9 == [i \in 1..27 |-> ETH[((i - 1) % 3) + 1]]

\* accounts of 0, 17, 24 and 25 bytes, and one of 9 characters in 27 bytes
ACCOUNTS == {<<>>, Account17, Rep(49, 24), Rep(49, 25), Eth9}

\* account-info strings of the card schemes: "", 16 digits, 100 bytes, non-ASCII
ACCOUNT_INFOS == {<<>>, VisaScheme.account_info, Rep(65, 100), ETH \o <<45>>}

SCHEME_INPUTS ==
         {IPSET(g, b, a) : g \in GUIDS, b \in BICS, a \in ACCOUNTS}
    \cup {Visa(a) : a \in ACCOUNT_INFOS}
    \cup {Mastercard(a) : a \in ACCOUNT_INFOS}
    \cup {UnionPay(a) : a \in ACCOUNT_INFOS}

\* SchemeConfig::encode called on a scheme
scheme_encode(scheme) ==
    /\ call' = [fn |-> "SchemeConfig::encode", arg |-> scheme]
    /\ ret' = SchemeConfig_encode(scheme)
    /\ UNCHANGED <<self, result, adata>>

NextScheme == \E scheme \in SCHEME_INPUTS : scheme_encode(scheme)

SpecScheme == Init /\ [][NextScheme]_vars

(***************************************************************************)
(* C8                                                                      *)
(***************************************************************************)
\* the number of characters of a string: its bytes that start a character
CharCount(s) == Cardinality({i \in 1..Len(s) : ~IsContinuation(s[i])})

\* the bytes of the ASCII letters and digits
AsciiAlnum == (48..57) \cup (65..90) \cup (97..122)

Sealed(d) == d \o Tag6304 \o calculate_crc16(d \o Tag6304)

\* the lower-case form of an ASCII string
Lower(s) == [i \in 1..Len(s) |-> IF s[i] >= 65 /\ s[i] <= 90 THEN s[i] + 32 ELSE s[i]]

\* "0002010112150201400012345678901234526011", the payload of the test
\* test_crc_verification without its 6304
TestPayload ==
    <<48, 48, 48, 50, 48, 49, 48, 49, 49, 50, 49, 53, 48, 50, 48, 49, 52, 48, 48, 48,
      49, 50, 51, 52, 53, 54, 55, 56, 57, 48, 49, 50, 51, 52, 53, 50, 54, 48, 49, 49>>

\* "1234567" and "12345678901234567890" of test_empty_and_invalid_input
Digits7 == <<49, 50, 51, 52, 53, 54, 55>>
Digits20 == <<49, 50, 51, 52, 53, 54, 55, 56, 57, 48>> \o <<49, 50, 51, 52, 53, 54, 55, 56, 57, 48>>

\* the strings verify_crc is called on: "", the two test strings, three
\* Ethiopic syllables (3 characters, 9 bytes), a syllable and "1234567",
\* "1234567" and a syllable, "0002016304" with "aae6" in lower case, and four
\* sealed strings: the empty one, "000201", the test payload, "5903" and a
\* syllable
VERIFY_INPUTS ==
    {<<>>, Digits7, Digits20,
     ETH \o ETH \o ETH, ETH \o Digits7, Digits7 \o ETH,
     <<48, 48, 48, 50, 48, 49>> \o Tag6304 \o Lower(calculate_crc16(<<48, 48, 48, 50, 48, 49>> \o Tag6304)),
     Sealed(<<>>), Sealed(<<48, 48, 48, 50, 48, 49>>), Sealed(TestPayload),
     Sealed(<<53, 57, 48, 51>> \o ETH)}

\* the characters put in place of one: 0 6 A a D d X and the Ethiopic syllable
REPLACEMENTS == {<<48>>, <<54>>, <<65>>, <<97>>, <<68>>, <<100>>, <<88>>, ETH}

\* the bytes of the character that starts with byte b
CharBytes(b) == IF b < 128 THEN 1 ELSE IF b < 224 THEN 2 ELSE IF b < 240 THEN 3 ELSE 4

\* the character of s that starts at byte i
CharAt(s, i) == SubSeq(s, i, i + CharBytes(s[i]) - 1)

\* s with the character that starts at byte i replaced by character c
ReplaceChar(s, i, c) ==
    SubSeq(s, 1, i - 1) \o c \o SubSeq(s, i + CharBytes(s[i]), Len(s))

\* verify_crc called on a string
call_verify_crc(s) ==
    /\ call' = [fn |-> "verify_crc", arg |-> s, tampered |-> None]
    /\ ret' = verify_crc(s)
    /\ UNCHANGED <<self, result, adata>>

\* verify_crc called on the string it has just verified, one character of it
\* replaced by a different one
tamper_and_verify ==
    /\ call.fn = "verify_crc"
    /\ ret = VTrue
    /\ \E i \in 1..Len(call.arg), c \in REPLACEMENTS :
          /\ ~IsContinuation(call.arg[i])
          /\ c # CharAt(call.arg, i)
          /\ call' = [fn |-> "verify_crc",
                      arg |-> ReplaceChar(call.arg, i, c),
                      tampered |-> Some([from |-> call.arg, at |-> i, by |-> c])]
          /\ ret' = verify_crc(ReplaceChar(call.arg, i, c))
    /\ UNCHANGED <<self, result, adata>>

NextCrc ==
    \/ \E s \in VERIFY_INPUTS : call_verify_crc(s)
    \/ tamper_and_verify

SpecCrc == Init /\ [][NextCrc]_vars

(***************************************************************************)
(* C9                                                                      *)
(***************************************************************************)
RECURSIVE Chars(_)
\* the characters of a string, each with its bytes
Chars(s) ==
    IF s = <<>> THEN <<>>
    ELSE <<SubSeq(s, 1, CharBytes(s[1]))>> \o Chars(SubSeq(s, CharBytes(s[1]) + 1, Len(s)))

\* the 4 characters of s that start 8 characters from its end
HeaderChars(s) ==
    LET cs == Chars(s)
    IN  Flatten(SubSeq(cs, Len(cs) - 7, Len(cs) - 4))

\* C9: verify_crc returns a boolean on every string; false on every string
\* of fewer than 8 characters and on every string whose 4 characters starting
\* 8 from the end are not "6304"
C9_NeverRaises ==
    call.fn = "verify_crc" =>
        /\ ret \in {VTrue, VFalse}
        /\ CharCount(call.arg) < 8 => ret = VFalse
        /\ (CharCount(call.arg) >= 8 /\ HeaderChars(call.arg) # <<54, 51, 48, 52>>)
               => ret = VFalse

(***************************************************************************)
(* C10                                                                     *)
(***************************************************************************)
\* C10 as claimed: a verified string with any one character replaced by a
\* different one does not verify (stated for the replacements on which
\* verify_crc returns; those on which it panics fall under C9)
C10_AnyReplacementFails ==
    (call.fn = "verify_crc" /\ call.tampered # None /\ ret # VPanic) => ret = VFalse

\* C10 as amended: a verified string with one ASCII character replaced by a
\* different ASCII character does not verify, unless the character is one of
\* the 4 checksum characters and the new one is the same letter in the other
\* case: then it verifies, the checksum being compared case-insensitively
C10_AsciiReplacement ==
    (call.fn = "verify_crc" /\ call.tampered # None) =>
        LET t == call.tampered[1]
            old == CharAt(t.from, t.at)
        IN  (Len(old) = 1 /\ Len(t.by) = 1) =>
                IF t.at > Len(t.from) - 4 /\ Lower(old) = Lower(t.by)
                THEN ret = VTrue
                ELSE ret = VFalse

\* a character of the data of a verified string was replaced by another ASCII
\* character and the string no longer verified
C10_Witness ==
    /\ call.fn = "verify_crc"
    /\ call.tampered # None
    /\ call.tampered[1].at <= Len(call.tampered[1].from) - 8
    /\ Len(CharAt(call.tampered[1].from, call.tampered[1].at)) = 1
    /\ Len(call.tampered[1].by) = 1
    /\ ret = VFalse

(***************************************************************************)
(* C11                                                                     *)
(***************************************************************************)
\* the fresh builder with the setter calls of b applied: QRBuilder::new() and
\* the seven fields the setters write
Configuration(b) ==
    [QRBuilder_new EXCEPT !.merchant_name = b.merchant_name,
                          !.merchant_city = b.merchant_city,
                          !.merchant_category_code = b.merchant_category_code,
                          !.schemes = b.schemes,
                          !.transaction_amount = b.transaction_amount,
                          !.additional_data = b.additional_data,
                          !.transaction_context = b.transaction_context]

\* C11: every build, whatever builds came before it, returns what one build of
\* a fresh builder with the same setter calls returns, leaves the name, city,
\* category code, scheme list, amount, additional data and context as they
\* were, and a build straight after a build returns the same value
C11_BuildIdempotent ==
    [][result' # None =>
          /\ result' = Some(build_result(Configuration(self)))
          /\ Configuration(self') = Configuration(self)
          /\ result # None => result' = result]_vars

\* a build has failed validation on a builder that an earlier build had
\* written to as static and that was given an amount since
C11_Witness ==
    /\ BuiltErr
    /\ self.point_of_initiation = Some(STATIC_QR_POI)
    /\ is_some(self.transaction_amount)
    /\ result = Some(build_result(Configuration(self)))

(***************************************************************************)
(* calculate_crc16 on its own: it is called on a string, and on that       *)
(* string with one more character pushed.                                  *)
(***************************************************************************)
\* the longest string, in bytes, that a character is still pushed to
MaxCrcBytes == 2

\* the sample payload of the documentation and of test_crc_calculation
SamplePayload ==
    <<
      48, 48, 48, 50, 48, 49, 48, 49, 48, 50, 49, 50, 48, 50, 48, 49,
      52, 48, 48, 48, 49, 50, 51, 52, 53, 54, 55, 56, 57, 48, 49, 50,
      48, 52, 49, 53, 53, 51, 52, 53, 49, 50, 51, 52, 53, 54, 55, 56,
      57, 48, 49, 50, 53, 50, 48, 52, 53, 57, 57, 57, 53, 51, 48, 51,
      53, 56, 54, 53, 52, 48, 52, 49, 46, 48, 48, 53, 56, 48, 50, 67,
      78, 53, 57, 49, 52, 66, 69, 83, 84, 32, 84, 82, 65, 78, 83, 80,
      79, 82, 84, 54, 48, 48, 57, 71, 85, 65, 78, 71, 90, 72, 79, 85,
      54, 51, 48, 52>>

\* characters of 1, 2, 3 and 4 bytes: NUL, "0", "A", DEL, U+00FF, U+12A0, U+1F600
CRC_CHARS ==
    {<<0>>, <<48>>, <<65>>, <<127>>, <<195, 191>>, ETH, <<240, 159, 152, 128>>}

\* strings calculate_crc16 is called on: "", every ASCII character, the sample
\* payload, the payload of test_crc_verification
CRC_INPUTS ==
    {<<>>, SamplePayload, TestPayload} \cup {<<c>> : c \in 0..127}

call_calculate_crc16(data) ==
    /\ call' = [fn |-> "calculate_crc16", arg |-> data]
    /\ ret' = calculate_crc16(data)
    /\ UNCHANGED <<self, result, adata>>

\* the string of the latest call with one character pushed, and the call made
\* again
push_and_calculate(c) ==
    /\ call.fn = "calculate_crc16"
    /\ Len(call.arg) <= MaxCrcBytes
    /\ call_calculate_crc16(call.arg \o c)

NextCalc ==
    \/ \E data \in CRC_INPUTS : call_calculate_crc16(data)
    \/ \E c \in CRC_CHARS : push_and_calculate(c)

SpecCalc == Init /\ [][NextCalc]_vars

(***************************************************************************)
(* C12                                                                     *)
(***************************************************************************)
RECURSIVE BitShift(_, _)
\* n steps of the bit-by-bit division by the polynomial 0x1021, most
\* significant bit first, on 16 bits
BitShift(crc, n) ==
    IF n = 0 THEN crc
    ELSE BitShift(IF crc >= 32768 THEN Xor16((crc * 2) % 65536, 4129)
                  ELSE crc * 2,
                  n - 1)

\* the remainder for one table index
BitRemainder(i) == BitShift(i * 256, 8)

RECURSIVE BitCrc(_, _, _, _)
\* CRC-16/CCITT-FALSE of bytes lo..hi of data from the value crc, bit by bit:
\* each byte is xored into the high byte and eight division steps follow
BitCrc(data, lo, hi, crc) ==
    IF lo > hi THEN crc
    ELSE IF lo = hi THEN BitShift(Xor16(crc, data[lo] * 256), 8)
    ELSE LET mid == (lo + hi) \div 2
             first == BitCrc(data, lo, mid, crc)
         IN  IF first \in Nat THEN BitCrc(data, mid + 1, hi, first) ELSE first

\* the number four upper-case hexadecimal digits stand for
HexValue(h) ==
    LET v(b) == IF b <= 57 THEN b - 48 ELSE b - 55
    IN  4096 * v(h[1]) + 256 * v(h[2]) + 16 * v(h[3]) + v(h[4])

\* each of the 256 table entries is the bitwise remainder for its index
TableIsBitwise == \A i \in 0..255 : CRC16_CCITT_TABLE[i + 1] = BitRemainder(i)

\* C12: calculate_crc16 returns the CRC-16/CCITT-FALSE value of its input
\* (seed 0xFFFF, polynomial 0x1021, no final xor) as a bit-by-bit computation
\* gives it, written as exactly 4 upper-case hexadecimal digits; each of the
\* 256 table entries is the bitwise remainder for its index; the sample
\* payload gives "A9AD"
C12_CcittFalse ==
    call.fn = "calculate_crc16" =>
        /\ Len(ret) = 4
        /\ \A i \in 1..4 : IsUpperHex(ret[i])
        /\ HexValue(ret) = BitCrc(call.arg, 1, Len(call.arg), 65535)
        /\ TableIsBitwise
        /\ call.arg = SamplePayload => ret = <<65, 57, 65, 68>>

\* calculate_crc16 was called on the sample payload and returned "A9AD"
C12_Witness ==
    /\ call.fn = "calculate_crc16"
    /\ call.arg = SamplePayload
    /\ ret = <<65, 57, 65, 68>>

(***************************************************************************)
(* C13                                                                     *)
(***************************************************************************)
\* one of the four validation rules is violated
ViolatesValidation(b) ==
    \/ Len(b.merchant_name) > 25
    \/ Len(b.merchant_city) > 15
    \/ ~FourDigits(b.merchant_category_code)
    \/ Len(b.schemes) = 0

\* the error a scheme gives when it is encoded, None when it encodes
SchemeError(s) ==
    IF s.kind # "IPSET" THEN None
    ELSE IF Len(s.guid) # 32 \/ \E i \in 1..Len(s.guid) : s.guid[i] \notin AsciiAlnum
    THEN Some(InvalidValue("guid", s.guid))
    ELSE IF Len(s.bic) \notin {8, 11} THEN Some(InvalidValue("bic", s.bic))
    ELSE IF Len(s.account) > 24 THEN Some(InvalidValue("account", s.account))
    ELSE None

\* the positions of the schemes that do not encode
FailingSchemes(b) == {i \in 1..Len(b.schemes) : SchemeError(b.schemes[i]) # None}

\* the smallest element of a non-empty set of numbers
Least(S) == CHOOSE i \in S : \A j \in S : i <= j

\* C13: build returns a validation error whenever a validation rule is
\* violated, also when a scheme would not encode; otherwise the error of the
\* first scheme, in add_scheme order, that does not encode; PayloadTooLong
\* only when validation passed and every scheme encoded; and an error is the
\* error value alone, with no payload
C13_ErrorPriority ==
    result # None =>
        LET r == result[1]
            key == ErrorKey(r)
        IN  /\ IF ViolatesValidation(self) THEN key \in ValidationKeys
               ELSE IF FailingSchemes(self) # {}
               THEN ~r.ok /\ Some(r.err) = SchemeError(self.schemes[Least(FailingSchemes(self))])
               ELSE key \in {<<"Ok">>, <<"PayloadTooLong", "">>}
            /\ key = <<"PayloadTooLong", "">> =>
                   ~ViolatesValidation(self) /\ FailingSchemes(self) = {}
            /\ ~r.ok => DOMAIN r = {"ok", "err"}

\* build was called with two schemes that do not encode, the one with the bad
\* BIC added first, and returned the BIC error
C13_Witness ==
    /\ BuiltErr
    /\ ~ViolatesValidation(self)
    /\ self.schemes = <<BadBicScheme, BadGuidScheme>>
    /\ result[1].err = InvalidValue("bic", BadBicScheme.bic)

\* build was called with a rule of validation violated and a scheme that does
\* not encode, and returned the validation error
C13_ValidationFirst ==
    /\ BuiltErr
    /\ FailingSchemes(self) # {}
    /\ ErrorKey(result[1]) \in ValidationKeys

(***************************************************************************)
(* C14                                                                     *)
(***************************************************************************)
\* the sub-tag ID of each sub-field, as a number
SubFieldId(f) ==
    CASE f = "bill_number" -> 1
      [] f = "mobile_number" -> 2
      [] f = "store_label" -> 3
      [] f = "loyalty_number" -> 4
      [] f = "reference_label" -> 5
      [] f = "customer_label" -> 6
      [] f = "terminal_number" -> 7
      [] f = "purpose" -> 8
      [] f = "additional_customer_data" -> 9
      [] f = "merchant_tax_id" -> 10
      [] f = "merchant_channel" -> 11
      [] f = "due_date" -> 50
      [] f = "amount_after_due_date" -> 51

\* the number a two-digit ID stands for
IdNumber(id) == 10 * (id[1] - 48) + (id[2] - 48)

\* tag is the tag 62 whose value is one sub-tag per set sub-field of ad, by
\* ascending ID, each holding the value of its sub-field
EncodedInOrder(ad, tag) ==
    LET recs == LeadingRecords(tag.value)
    IN  /\ tag.id = <<54, 50>>
        /\ IsRecords(tag.value)
        /\ \A i \in 1..Len(recs) : \A j \in 1..Len(recs) :
               i < j => IdNumber(recs[i].id) < IdNumber(recs[j].id)
        /\ {IdNumber(recs[i].id) : i \in 1..Len(recs)} = {SubFieldId(f) : f \in SetFields(ad)}
        /\ \A i \in 1..Len(recs) : \A f \in SetFields(ad) :
               SubFieldId(f) = IdNumber(recs[i].id) => Some(recs[i].value) = ad[f]

\* C14: AdditionalData::encode of a value with a sub-field set returns tag 62
\* holding one sub-tag per set sub-field in the order 01..11, 50, 51 of the
\* IDs, whatever calls set them; a setter leaves its sub-field holding the
\* value it was given, also when the sub-field was set before, and changes no
\* other sub-field
C14_SubFieldOrder ==
    [][/\ (call'.fn = "AdditionalData::encode" /\ SetFields(call'.arg) # {}) =>
              /\ call'.arg = unwrap(adata)
              /\ ret' # None
              /\ EncodedInOrder(call'.arg, unwrap(ret'))
       /\ call'.fn = "AdditionalData::set" =>
              /\ unwrap(adata')[call'.field] = Some(call'.value)
              /\ \A g \in AD_FIELD_NAMES \ {call'.field} :
                     unwrap(adata')[g] = unwrap(adata)[g]]_vars

\* encode was called on a value with reference_label and bill_number set and
\* returned tag 62 with sub-tag 01 in front of sub-tag 05
C14_Witness ==
    /\ call.fn = "AdditionalData::encode"
    /\ SetFields(call.arg) = {"reference_label", "bill_number"}
    /\ call.arg["bill_number"] = Some(<<>>)
    /\ call.arg["reference_label"] = Some(<<65, 49>>)
    /\ ret = Some([id |-> <<54, 50>>,
                   value |-> <<48, 49, 48, 48, 48, 53, 48, 50, 65, 49>>])

(***************************************************************************)
(* C15                                                                     *)
(***************************************************************************)
\* C15: the tag of an IPSET scheme that encodes has ID 28 and a value of 52 to
\* 79 bytes made of the sub-tags 00 (GUID), 01 (BIC), 02 (account) in that
\* order, each with a two-digit length field equal to the length of its value,
\* and the outer tag is written with a two-digit length field as well
C15_InterbankLength ==
    (call.fn = "SchemeConfig::encode" /\ call.arg.kind = "IPSET" /\ ret.ok) =>
        LET tag == ret.value
            recs == LeadingRecords(tag.value)
        IN  /\ tag.id = <<50, 56>>
            /\ Len(tag.value) >= 52 /\ Len(tag.value) <= 79
            /\ IsRecords(tag.value)
            /\ recs = <<[id |-> <<48, 48>>, value |-> call.arg.guid],
                        [id |-> <<48, 49>>, value |-> call.arg.bic],
                        [id |-> <<48, 50>>, value |-> call.arg.account]>>
            /\ LeadingRecords(EMVTag_encode(tag)) = <<tag>>
            /\ Len(EMVTag_encode(tag)) = 4 + Len(tag.value)

\* a scheme with an 11-byte BIC and a 24-byte account was encoded into a value
\* of 79 bytes
C15_Witness ==
    /\ call.fn = "SchemeConfig::encode"
    /\ call.arg = IPSET(Guid32, Bic8 \o <<88, 88, 88>>, Rep(49, 24))
    /\ ret.ok
    /\ Len(ret.value.value) = 79

\* a scheme with an 8-byte BIC and an empty account was encoded into a value
\* of 52 bytes
C15_Shortest ==
    /\ call.fn = "SchemeConfig::encode"
    /\ call.arg = IPSET(Guid32, Bic8, <<>>)
    /\ ret.ok
    /\ Len(ret.value.value) = 52

(***************************************************************************)
(* C16                                                                     *)
(***************************************************************************)
\* the fields of the builder whose value a step changes
ChangedFields == {f \in DOMAIN self : self'[f] # self[f]}

\* the fields written by the scalar setters and the values they are given
ScalarInputs ==
    [merchant_name |-> NAMES,
     merchant_city |-> CITIES,
     merchant_category_code |-> CODES,
     transaction_amount |-> {Some(a) : a \in AMOUNTS},
     additional_data |-> {Some(d) : d \in DATAS},
     transaction_context |-> {Some(c) : c \in CONTEXTS}]

\* C16: no step unsets the amount, and a build of a builder with an amount
\* set never gives a static payload; every step leaves the scheme list as it
\* was or with one scheme appended; a setter step changes one field at most,
\* the scheme list by appending or a scalar field to a value given to its
\* setter, and no other field
C16_OnlyGrows ==
    [][/\ is_some(self.transaction_amount) => is_some(self'.transaction_amount)
       /\ (is_some(self.transaction_amount) /\ result' # None /\ result'[1].ok) =>
              ValueOf(LeadingRecords(result'[1].value), <<48, 49>>) = <<49, 50>>
       /\ Len(self'.schemes) \in {Len(self.schemes), Len(self.schemes) + 1}
       /\ SubSeq(self'.schemes, 1, Len(self.schemes)) = self.schemes
       /\ result' = None =>
              /\ Cardinality(ChangedFields) <= 1
              /\ \A f \in ChangedFields :
                     \/ f = "schemes"
                     \/ f \in DOMAIN ScalarInputs /\ self'[f] \in ScalarInputs[f]]_vars

\* a dynamic payload was built from a builder with an amount, a context and
\* two schemes, the interbank scheme added first
C16_Witness ==
    /\ BuiltOk
    /\ is_some(self.transaction_amount)
    /\ self.schemes = <<IpsEtScheme, VisaScheme>>
    /\ is_some(self.transaction_context)
    /\ ValueOf(LeadingRecords(result[1].value), <<48, 49>>) = <<49, 50>>

====
